---- MODULE Spec2Model ----
(***************************************************************************)
(* A model of quepy/quepyapp.py: the text sanitizer, the sub-pattern       *)
(* decomposer and deduplicator, the construction of a QuepyApp, and the    *)
(* get_query / get_queries pipeline.                                       *)
(***************************************************************************)
EXTENDS Naturals, Sequences, FiniteSets

VARIABLES
    h_pc,            \* position of the pure-function harness
    h_in,            \* the argument handed to the function under study
    h_out,           \* what it returned
    h_out2,          \* what it returned when applied to its own result
    parsing_module,  \* the rule source: its declarations, in declaration order
    settings_module, \* the application's settings module: <<key, value>> pairs
    tagger,          \* how the tagger get_tagger() returned behaves
    settings,        \* quepy.settings, the process-wide settings
    language,        \* self.language
    rules,           \* self.rules
    partial_rules,   \* self.partial_rules
    app_pc,          \* "new", "ready" (constructed) or "failed" (the constructor raised)
    call             \* per caller: the state of its get_query / get_queries call

hvars == <<h_pc, h_in, h_out, h_out2>>
appvars == <<parsing_module, settings_module, tagger, settings, language,
             rules, partial_rules, app_pc, call>>
vars == <<h_pc, h_in, h_out, h_out2, parsing_module, settings_module, tagger,
          settings, language, rules, partial_rules, app_pc, call>>

None == "None"

\* the pure-function harness is not running
HarnessOff == h_pc = "off" /\ h_in = None /\ h_out = None /\ h_out2 = None

\* no application exists
AppAbsent ==
    /\ parsing_module = <<>> /\ settings_module = {} /\ tagger = None
    /\ settings = {} /\ language = None /\ rules = <<>> /\ partial_rules = <<>>
    /\ app_pc = "absent" /\ call = <<>>

(***************************************************************************)
(* Text.  A Python string is a sequence of one-character strings.          *)
(***************************************************************************)
SQ == "'"
DQ == "\""
BS == "\\"
Chars == {"a", SQ, DQ, BS}

MaxTextLen == 3

RECURSIVE SeqsUpTo(_, _)
SeqsUpTo(S, n) ==
    IF n = 0 THEN {<<>>}
    ELSE LET shorter == SeqsUpTo(S, n - 1)
         IN  shorter \cup {Append(s, x) : s \in {t \in shorter : Len(t) = n - 1}, x \in S}

Texts == SeqsUpTo(Chars, MaxTextLen)

\* str.replace(old, new) for a one-character old: every occurrence of old,
\* left to right, is replaced by the string new.
RECURSIVE str_replace(_, _, _)
str_replace(s, old, new) ==
    IF s = <<>> THEN <<>>
    ELSE (IF Head(s) = old THEN new ELSE <<Head(s)>>) \o str_replace(Tail(s), old, new)

\* The Python literal "\'" : in a double-quoted literal the escape \' denotes
\* the single quote alone, so the literal is the one-character string '.
lit_escaped_single == <<SQ>>
\* The Python literal "\\\"" : a backslash followed by a double quote.
lit_escaped_double == <<BS, DQ>>

\* variant: the backslash is escaped as well
question_sanitize_escaping_backslash(question) ==
    str_replace(str_replace(str_replace(question, BS, <<BS, BS>>),
                            SQ, lit_escaped_single), DQ, lit_escaped_double)

question_sanitize(question) ==
    str_replace(str_replace(question, SQ, lit_escaped_single), DQ, lit_escaped_double)

(***************************************************************************)
(* SpecSanitize: question_sanitize applied to every bounded text, and then *)
(* to its own result.                                                      *)
(***************************************************************************)
InitSanitize ==
    /\ AppAbsent
    /\ h_pc = "start"
    /\ h_in \in Texts
    /\ h_out = None
    /\ h_out2 = None

Sanitize ==
    /\ h_pc = "start"
    /\ h_out' = question_sanitize(h_in)
    /\ h_pc' = "sanitized"
    /\ UNCHANGED <<h_in, h_out2>>
    /\ UNCHANGED appvars

Resanitize ==
    /\ h_pc = "sanitized"
    /\ h_out2' = question_sanitize(h_out)
    /\ h_pc' = "resanitized"
    /\ UNCHANGED <<h_in, h_out>>
    /\ UNCHANGED appvars

NextSanitize == Sanitize \/ Resanitize

SpecSanitize == InitSanitize /\ [][NextSanitize]_vars

HasChar(s, c) == \E i \in 1..Len(s) : s[i] = c

\* a quote character of s that no backslash immediately precedes
UnescapedQuote(s) ==
    \E i \in 1..Len(s) : /\ s[i] \in {SQ, DQ}
                         /\ (i = 1 \/ s[i - 1] # BS)

\* C5: for any question containing a single or a double quote, every ' and
\* every " of question_sanitize's result is immediately preceded by a backslash.
C5_NoUnescapedQuote ==
    (h_pc # "start" /\ (HasChar(h_in, SQ) \/ HasChar(h_in, DQ)))
        => ~UnescapedQuote(h_out)

\* C6 as stated: question_sanitize(question_sanitize(q)) = question_sanitize(q)
\* for every question q.
C6_Idempotent ==
    h_pc = "resanitized" => h_out2 = h_out

\* C6 amended: sanitizing twice gives the same text as sanitizing once exactly
\* for the questions that contain no double quote.
C6_IdempotentIffNoDouble ==
    h_pc = "resanitized" => ((h_out2 = h_out) <=> ~HasChar(h_in, DQ))

C6_Witness ==
    /\ h_pc = "resanitized"
    /\ HasChar(h_in, SQ)
    /\ HasChar(h_in, BS)
    /\ h_out2 = h_out

(***************************************************************************)
(* Pattern trees.  A node is a record [type, arg, kids]: type is the       *)
(* node's class, arg the token of a Literal ("-" elsewhere), kids the      *)
(* patterns it holds.  Particle is quepy's capture: a Group whose inner    *)
(* regex is its one kid.                                                    *)
(***************************************************************************)
Literal(x) == [type |-> "Literal", arg |-> x, kids |-> <<>>]
Any == [type |-> "Any", arg |-> "-", kids |-> <<>>]
Star(p) == [type |-> "Star", arg |-> "-", kids |-> <<p>>]
Question(p) == [type |-> "Question", arg |-> "-", kids |-> <<p>>]
Particle(p) == [type |-> "Particle", arg |-> "-", kids |-> <<p>>]
Disjunction(a, b) == [type |-> "Disjunction", arg |-> "-", kids |-> <<a, b>>]
Concatenation(xs) == [type |-> "Concatenation", arg |-> "-", kids |-> xs]

PatternTypes ==
    {"Literal", "Any", "Star", "Question", "Particle", "Disjunction", "Concatenation"}

\* what a node holds that is no Pattern: the token a Literal compares with
Token(x) == [type |-> "token", arg |-> x, kids |-> <<>>]

MaxNodes == 5

Leaves == {Literal("a"), Any}

RECURSIVE TreesOfSize(_)
TreesOfSize(n) ==
    IF n = 1 THEN Leaves
    ELSE LET sub == TreesOfSize(n - 1)
         IN  {Star(t) : t \in sub} \cup {Question(t) : t \in sub}
             \cup {Particle(t) : t \in sub} \cup {Concatenation(<<t>>) : t \in sub}
             \cup UNION {{Concatenation(<<a, b>>) : a \in TreesOfSize(i), b \in TreesOfSize(n - 1 - i)}
                         : i \in 1..(n - 2)}
             \cup UNION {{Disjunction(a, b) : a \in TreesOfSize(i), b \in TreesOfSize(n - 1 - i)}
                         : i \in 1..(n - 2)}

Trees == UNION {TreesOfSize(n) : n \in 1..MaxNodes}

\* isinstance(at, Pattern)
IsPattern(at) == at.type \in PatternTypes

\* The values of a node's public attributes, in dir() order, each made a list
\* when it is none (lines 62-66), the lists laid end to end.
attribute_values(regex) ==
    IF regex.type = "Literal" THEN <<Token(regex.arg)>> ELSE regex.kids

RECURSIVE refo_subpatterns(_), subpatterns_of_values(_)

\* the loop over the attribute values: a Question gives way to its inner
\* pattern, and what is a Pattern is decomposed and then appended
\* variant: only a child that holds patterns itself is appended
subpatterns_of_values_composite_only(ats) ==
    IF ats = <<>> THEN <<>>
    ELSE LET at0 == Head(ats)
             at  == IF at0.type = "Question" THEN at0.kids[1] ELSE at0
         IN  (IF IsPattern(at) /\ at.kids # <<>>
              THEN Append(refo_subpatterns(at), at) ELSE refo_subpatterns(at))
             \o subpatterns_of_values(Tail(ats))

subpatterns_of_values(ats) ==
    IF ats = <<>> THEN <<>>
    ELSE LET at0 == Head(ats)
             at  == IF at0.type = "Question" THEN at0.kids[1] ELSE at0
         IN  (IF IsPattern(at) THEN Append(refo_subpatterns(at), at) ELSE <<>>)
             \o subpatterns_of_values(Tail(ats))

refo_subpatterns(regex) ==
    IF regex.type = "Particle" THEN <<>>
    ELSE subpatterns_of_values(attribute_values(regex))

(***************************************************************************)
(* Rendering and comparison of patterns.                                   *)
(***************************************************************************)
RECURSIVE repr(_), repr_list(_)
\* "{1}({0!r})".format(self.arg, self.__class__.__name__)
repr(p) ==
    IF p.type = "Literal" THEN <<"Literal", "(", p.arg, ")">>
    ELSE <<p.type, "(">> \o repr_list(p.kids) \o <<")">>
repr_list(ps) ==
    IF ps = <<>> THEN <<>>
    ELSE IF Len(ps) = 1 THEN repr(ps[1])
    ELSE repr(Head(ps)) \o <<",">> \o repr_list(Tail(ps))

compare_patterns(pattern1, pattern2) ==
    IF pattern1.type # pattern2.type THEN FALSE
    ELSE repr(pattern1) = repr(pattern2)

find_pattern(pattern, iterable) ==
    \E k \in 1..Len(iterable) : compare_patterns(pattern, iterable[k])

\* variant: an entry is compared with the one before it only
remove_duplicates_against_previous(iterable) ==
    LET keep(pos) == pos = 1 \/ ~compare_patterns(iterable[pos], iterable[pos - 1])
        RECURSIVE build(_)
        build(pos) == IF pos > Len(iterable) THEN <<>>
                      ELSE (IF keep(pos) THEN <<iterable[pos]>> ELSE <<>>) \o build(pos + 1)
    IN  build(1)

remove_duplicates(iterable) ==
    LET keep(pos) == ~find_pattern(iterable[pos], SubSeq(iterable, 1, pos - 1))
        RECURSIVE build(_)
        build(pos) == IF pos > Len(iterable) THEN <<>>
                      ELSE (IF keep(pos) THEN <<iterable[pos]>> ELSE <<>>) \o build(pos + 1)
    IN  build(1)

(***************************************************************************)
(* SpecDecompose: refo_subpatterns applied to every bounded tree, and      *)
(* remove_duplicates applied to the fragments it returned.                 *)
(***************************************************************************)
InitDecompose ==
    /\ AppAbsent
    /\ h_pc = "start"
    /\ h_in \in Trees
    /\ h_out = None
    /\ h_out2 = None

Decompose ==
    /\ h_pc = "start"
    /\ h_out' = refo_subpatterns(h_in)
    /\ h_pc' = "decomposed"
    /\ UNCHANGED <<h_in, h_out2>>
    /\ UNCHANGED appvars

Deduplicate ==
    /\ h_pc = "decomposed"
    /\ h_out2' = remove_duplicates(h_out)
    /\ h_pc' = "deduplicated"
    /\ UNCHANGED <<h_in, h_out>>
    /\ UNCHANGED appvars

NextDecompose == Decompose \/ Deduplicate

SpecDecompose == InitDecompose /\ [][NextDecompose]_vars

\* the positions of a tree: the paths of child indices from its root
RECURSIVE Positions(_)
Positions(t) ==
    {<<>>} \cup UNION {{<<k>> \o p : p \in Positions(t.kids[k])} : k \in 1..Len(t.kids)}

RECURSIVE NodeAt(_, _)
NodeAt(t, p) == IF p = <<>> THEN t ELSE NodeAt(t.kids[Head(p)], Tail(p))

Front(p) == SubSeq(p, 1, Len(p) - 1)

IsComposite(n) == n.type \in {"Star", "Question", "Disjunction", "Concatenation"}

CompositeCount(t) == Cardinality({p \in Positions(t) : IsComposite(NodeAt(t, p))})

\* C8 as stated: a tree with k composite (non-leaf) nodes decomposes into
\* exactly k fragments.
C8_OnePerComposite ==
    h_pc # "start" => Len(h_out) = CompositeCount(h_in)

\* A position is walked into when it is the root, or when it is reached as a
\* fragment that is no Particle.  A Question met as a child is stepped over:
\* its inner pattern is the fragment, the Question itself is none.
RECURSIVE SteppedOver(_, _)
SteppedOver(t, p) ==
    /\ p # <<>>
    /\ NodeAt(t, p).type = "Question"
    /\ ~SteppedOver(t, Front(p))
InsideParticle(t, p) ==
    \E k \in 0..(Len(p) - 1) : NodeAt(t, SubSeq(p, 1, k)).type = "Particle"

FragmentPositions(t) ==
    {p \in Positions(t) : p # <<>> /\ ~SteppedOver(t, p) /\ ~InsideParticle(t, p)}

\* C8 amended: refo_subpatterns yields exactly one fragment for every node
\* strictly below the root, leaves included, save the Question nodes it steps
\* over and whatever lies inside a Particle; the root is never a fragment.
C8_OnePerNodeBelowRoot ==
    h_pc # "start" =>
        /\ Len(h_out) = Cardinality(FragmentPositions(h_in))
        /\ \A p \in FragmentPositions(h_in) : \E k \in 1..Len(h_out) : h_out[k] = NodeAt(h_in, p)

C8_Witness ==
    /\ h_pc # "start"
    /\ Len(h_out) # CompositeCount(h_in)
    /\ Len(h_out) >= 2
    /\ \E p \in Positions(h_in) : SteppedOver(h_in, p)
    /\ \E p \in Positions(h_in) : InsideParticle(h_in, p)

(***************************************************************************)
(* The collaborators of QuepyApp: the encoding policy, the tagger, the     *)
(* rules' matcher and the code generator.                                  *)
(***************************************************************************)
\* A text value is [kind, chars]: a Python 2 str or a unicode object.
Str(cs) == [kind |-> "str", chars |-> cs]
Unicode(cs) == [kind |-> "unicode", chars |-> cs]
NoText == [kind |-> "none", chars |-> <<>>]

\* quepy.encodingpolicy: a str is decoded to unicode, a unicode is kept
encoding_flexible_conversion(text) ==
    IF text.kind = "str" THEN Unicode(text.chars) ELSE text

\* question_sanitize on a text value: str.replace keeps the kind of its subject
sanitized(text) == [text EXCEPT !.chars = question_sanitize(@)]

\* a tagged token
Word(ch) == [token |-> ch, pos |-> IF ch \in {"a", "b"} THEN "NN" ELSE "SYM"]

\* self.tagger(question): the tagged tokens of the text, or TaggingError
tagger_call(text) ==
    IF tagger = "raises"
    THEN [raised |-> "TaggingError", words |-> <<>>]
    ELSE [raised |-> None, words |-> [i \in 1..Len(text.chars) |-> Word(text.chars[i])]]

\* whether the pattern p matches the whole token sequence w
RECURSIVE Matches(_, _), MatchesAll(_, _)
Matches(p, w) ==
    CASE p.type = "Literal" -> Len(w) = 1 /\ w[1].token = p.arg
      [] p.type = "Any" -> Len(w) = 1
      [] p.type = "Particle" -> Matches(p.kids[1], w)
      [] p.type = "Question" -> w = <<>> \/ Matches(p.kids[1], w)
      [] p.type = "Star" ->
            \/ w = <<>>
            \/ \E k \in 1..Len(w) : /\ Matches(p.kids[1], SubSeq(w, 1, k))
                                    /\ Matches(p, SubSeq(w, k + 1, Len(w)))
      [] p.type = "Disjunction" -> Matches(p.kids[1], w) \/ Matches(p.kids[2], w)
      [] p.type = "Concatenation" -> MatchesAll(p.kids, w)
MatchesAll(ps, w) ==
    IF ps = <<>> THEN w = <<>>
    ELSE \E k \in 0..Len(w) : /\ Matches(Head(ps), SubSeq(w, 1, k))
                              /\ MatchesAll(Tail(ps), SubSeq(w, k + 1, Len(w)))

\* A Python value handed around by the pipeline: None, an expression, a
\* target, a query or a rule's userdata.
PyNone == [is |-> "None", rule |-> 0, words |-> <<>>, language |-> ""]
Value(what, rule, words, lang) ==
    [is |-> what, rule |-> rule, words |-> words, language |-> lang]

\* rule.get_interpretation(words): (expression, userdata), (None, None) when
\* the rule's pattern does not match
get_interpretation(rule, words) ==
    IF Matches(rule.regex, words)
    THEN [expression |-> Value("expression", rule.name, words, ""),
          userdata |-> Value("userdata", rule.name, <<>>, "")]
    ELSE [expression |-> PyNone, userdata |-> PyNone]

\* generation.get_code(expression, language): (target, query)
get_code(expression, lang) ==
    [target |-> Value("target", expression.rule, <<>>, lang),
     query |-> Value("query", expression.rule, expression.words, lang)]

Triple(t, q, u) == [target |-> t, query |-> q, userdata |-> u]

(***************************************************************************)
(* Construction of a QuepyApp.                                             *)
(***************************************************************************)
\* A setting value is [kind, value]; kind "none" is None.
NoValue == [kind |-> "none", value |-> ""]

\* key.upper() for the keys of the model
upper(key) == IF key = "helper" THEN "HELPER" ELSE key

getattr(module, key) ==
    IF \E e \in module : e.key = key
    THEN (CHOOSE e \in module : e.key = key).value
    ELSE NoValue

setattr(module, key, value) ==
    {e \in module : e.key # key} \cup {[key |-> key, value |-> value]}

\* the value _save_settings_values stores for a key
saved_value(value) ==
    IF value.kind = "str" THEN [kind |-> "unicode", value |-> value.value] ELSE value

RECURSIVE save_keys(_, _, _)
save_keys(global, module, keys) ==
    IF keys = {} THEN global
    ELSE LET key == CHOOSE k \in keys : TRUE
             next == IF upper(key) = key
                     THEN setattr(global, key, saved_value(getattr(module, key)))
                     ELSE global
         IN  save_keys(next, module, keys \ {key})

_save_settings_values(global, module) ==
    save_keys(global, module, {e.key : e \in module})

\* `not value`
falsy(value) == value.kind = "none" \/ value.value = ""

\* dir(module): the module's entries in the order of their names
RECURSIVE in_name_order(_)
in_name_order(entries) ==
    IF entries = {} THEN <<>>
    ELSE LET first == CHOOSE e \in entries : \A f \in entries : e.name <= f.name
         IN  <<first>> \o in_name_order(entries \ {first})

dir(module) == in_name_order({module[i] : i \in 1..Len(module)})

\* element(): the instance of a rule class
instance(element) == [name |-> element.name, weight |-> element.weight, regex |-> element.regex]

RECURSIVE rules_of(_)
rules_of(elements) ==
    IF elements = <<>> THEN <<>>
    ELSE LET element == Head(elements)
         IN  (IF element.kind = "rule" THEN <<instance(element)>> ELSE <<>>)
             \o rules_of(Tail(elements))

get_rules(module) == rules_of(dir(module))

\* list.sort(key=lambda x: x.weight, reverse=True): stable, weight descending
RECURSIVE sort_by_weight_ascending(_), sort_by_weight_reverse(_)
\* variant: reverse=True left out
sort_by_weight_ascending(rs) ==
    IF rs = <<>> THEN <<>>
    ELSE LET sorted == sort_by_weight_reverse(SubSeq(rs, 1, Len(rs) - 1))
             r == rs[Len(rs)]
             k == Cardinality({i \in 1..Len(sorted) : sorted[i].weight <= r.weight})
         IN  SubSeq(sorted, 1, k) \o <<r>> \o SubSeq(sorted, k + 1, Len(sorted))

sort_by_weight_reverse(rs) ==
    IF rs = <<>> THEN <<>>
    ELSE LET sorted == sort_by_weight_reverse(SubSeq(rs, 1, Len(rs) - 1))
             r == rs[Len(rs)]
             k == Cardinality({i \in 1..Len(sorted) : sorted[i].weight >= r.weight})
         IN  SubSeq(sorted, 1, k) \o <<r>> \o SubSeq(sorted, k + 1, Len(sorted))

\* refo's a + b: one Concatenation, a Concatenation operand giving its items
plus(a, b) ==
    LET items(x) == IF x.type = "Concatenation" THEN x.kids ELSE <<x>>
    IN  Concatenation(items(a) \o items(b))

\* Star(Any()) + pattern + Star(Any())
new_regex(pattern) == plus(plus(Star(Any), pattern), Star(Any))

RECURSIVE wrapped(_)
wrapped(subpatterns) ==
    IF subpatterns = <<>> THEN <<>>
    ELSE <<new_regex(Head(subpatterns))>> \o wrapped(Tail(subpatterns))

\* the list get_partial_rules builds before it removes the duplicates
RECURSIVE all_partial_rules(_)
all_partial_rules(rs) ==
    IF rs = <<>> THEN <<>>
    ELSE wrapped(refo_subpatterns(Head(rs).regex)) \o all_partial_rules(Tail(rs))

get_partial_rules(rs) == remove_duplicates(all_partial_rules(rs))

(***************************************************************************)
(* The applications of the model: rule sources, settings modules, and the  *)
(* questions asked.                                                        *)
(***************************************************************************)
MaxRules == 2
MaxQuestionLen == 1
NumCalls == 2

Callers == 1..NumCalls

\* "a", optionally followed by "b"
WhoIs == Concatenation(<<Literal("a"), Question(Literal("b"))>>)
\* the same with a capture for "a"
Captured == Concatenation(<<Particle(Literal("a")), Question(Literal("b"))>>)
\* any non-empty question
Broad == Concatenation(<<Any, Star(Any)>>)
\* "a" or "b", then anything
Either == Concatenation(<<Disjunction(Literal("a"), Literal("b")), Star(Any)>>)
RuleRegexes == {WhoIs, Captured, Broad, Either}
\* the rules of the applications that are called
CalledRegexes == {WhoIs, Broad}

\* QuestionTemplate.weight defaults to 1
Weights == {1, 2}

\* what a rule source imports: a function, and QuestionTemplate itself
Imports ==
    <<[name |-> 0, kind |-> "function", weight |-> 0, regex |-> Any],
      [name |-> MaxRules + 1, kind |-> "QuestionTemplate", weight |-> 1, regex |-> Any]>>

\* n rule classes, declared in any order of their names 1..n
Declarations(n, regexes) ==
    {d \in [1..n -> [name : 1..n, kind : {"rule"}, weight : Weights, regex : regexes]] :
        \A i, j \in 1..n : i # j => d[i].name # d[j].name}

ParsingModules(regexes) ==
    {Imports \o d : d \in UNION {Declarations(n, regexes) : n \in 0..MaxRules}}

Setting(key, kind, value) == [key |-> key, value |-> [kind |-> kind, value |-> value]]
SettingsModules ==
    {{Setting("LANGUAGE", "str", "sparql"), Setting("helper", "str", "x")},
     {Setting("LANGUAGE", "str", ""), Setting("DEBUG", "bool", "on")},
     {Setting("helper", "str", "x")}}
DefaultSettings == {Setting("LANGUAGE", "unicode", "en"), Setting("ENCODING", "unicode", "utf-8")}

QuestionChars == {"a", "b", SQ, DQ}
Questions ==
    {Str(cs) : cs \in SeqsUpTo(QuestionChars, MaxQuestionLen)}
    \cup {Unicode(cs) : cs \in SeqsUpTo(QuestionChars, MaxQuestionLen)}

NoneTriple == Triple(PyNone, PyNone, PyNone)

BlankCall ==
    [pc |-> "idle", entry |-> "", question |-> NoText, text |-> NoText,
     tagger_input |-> NoText, words |-> <<>>, idx |-> 0, tried |-> <<>>,
     generated |-> <<>>, yielded |-> <<>>, result |-> NoneTriple, exc |-> None]

\* an application that nobody calls
InitRegistry ==
    /\ HarnessOff
    /\ parsing_module \in ParsingModules(RuleRegexes)
    /\ settings_module \in SettingsModules
    /\ tagger \in {"tags", "raises"}
    /\ settings = DefaultSettings
    /\ language = NoValue
    /\ rules = <<>>
    /\ partial_rules = <<>>
    /\ app_pc = "new"
    /\ call = [c \in Callers |-> BlankCall]

Init ==
    /\ HarnessOff
    /\ parsing_module \in ParsingModules(CalledRegexes)
    /\ settings_module \in SettingsModules
    /\ tagger \in {"tags", "raises"}
    /\ settings = DefaultSettings
    /\ language = NoValue
    /\ rules = <<>>
    /\ partial_rules = <<>>
    /\ app_pc = "new"
    /\ call = [c \in Callers |-> BlankCall]

\* QuepyApp.__init__
QuepyApp_init ==
    /\ app_pc = "new"
    /\ settings' = _save_settings_values(settings, settings_module)
    /\ language' = getattr(settings_module, "LANGUAGE")
    /\ IF falsy(language')
       THEN /\ app_pc' = "failed"
            /\ UNCHANGED <<rules, partial_rules>>
       ELSE /\ rules' = sort_by_weight_reverse(get_rules(parsing_module))
            /\ partial_rules' = get_partial_rules(get_rules(parsing_module))
            /\ app_pc' = "ready"
    /\ UNCHANGED <<parsing_module, settings_module, tagger, call>>
    /\ UNCHANGED hvars

\* SpecRegistry: the construction of every bounded application.
NextRegistry == QuepyApp_init

SpecRegistry == InitRegistry /\ [][NextRegistry]_vars

(***************************************************************************)
(* get_query and get_queries.                                              *)
(***************************************************************************)
\* the exceptions _iter_compiled_forms catches around the tagger
\* variant: no except clause
caught_none == {}
caught == {"TaggingError"}

\* `if expression:`
\* variant: the test on expression left out
compiled_form_yielded_always(expression) == TRUE
compiled_form_yielded(expression) == expression.is # "None"

\* the rules _iter_compiled_forms goes through
\* variant: the partial patterns tried after the rules
rules_then_partial_rules ==
    rules \o [k \in 1..Len(partial_rules) |->
                 [name |-> 0, weight |-> 0, regex |-> partial_rules[k]]]
rules_to_try == rules

\* the text get_query hands to get_queries
get_query_argument(question) == sanitized(question)

\* A caller enters get_query or get_queries with a question.
CallWith(c, questions) ==
    /\ app_pc = "ready"
    /\ call[c].pc = "idle"
    /\ \E entry \in {"get_query", "get_queries"}, question \in questions :
          call' = [call EXCEPT ![c] =
                      [BlankCall EXCEPT
                          !.pc = "called", !.entry = entry, !.question = question,
                          !.text = IF entry = "get_query"
                                   THEN get_query_argument(question) ELSE question]]
    /\ UNCHANGED <<parsing_module, settings_module, tagger, settings, language,
                   rules, partial_rules, app_pc>>
    /\ UNCHANGED hvars

Call(c) == CallWith(c, Questions)

\* get_queries converts the text; _iter_compiled_forms tags it.
Tag(c) ==
    /\ call[c].pc = "called"
    /\ LET question == encoding_flexible_conversion(call[c].text)
           tagged == tagger_call(question)
       IN  call' = [call EXCEPT ![c] =
              IF tagged.raised = None
              THEN [@ EXCEPT !.tagger_input = question, !.words = tagged.words,
                             !.idx = 1, !.pc = "matching"]
              ELSE IF tagged.raised \in caught
              THEN [@ EXCEPT !.tagger_input = question, !.pc = "done"]
              ELSE [@ EXCEPT !.tagger_input = question, !.pc = "done",
                             !.exc = tagged.raised]]
    /\ UNCHANGED <<parsing_module, settings_module, tagger, settings, language,
                   rules, partial_rules, app_pc>>
    /\ UNCHANGED hvars

\* the state of a call after it tried the rule at its index
after_rule(cs, rule) ==
    LET interpretation == get_interpretation(rule, cs.words)
        expression == interpretation.expression
        code == get_code(expression, language.value)
        triple == Triple(code.target, code.query, interpretation.userdata)
        tried == [cs EXCEPT !.tried = Append(@, rule.name)]
    IN  IF compiled_form_yielded(expression)
        THEN [tried EXCEPT !.generated = Append(@, expression.rule),
                           !.yielded = Append(@, triple),
                           !.result = IF cs.entry = "get_query" THEN triple ELSE @,
                           !.pc = IF cs.entry = "get_query" THEN "done" ELSE @,
                           !.idx = @ + 1]
        ELSE [tried EXCEPT !.idx = @ + 1]

\* variant: a rule is dropped from self.rules once it failed to match
TryRule_dropping(c) ==
    /\ call[c].pc = "matching"
    /\ call[c].idx <= Len(rules_to_try)
    /\ call' = [call EXCEPT ![c] = after_rule(@, rules_to_try[call[c].idx])]
    /\ rules' = IF Len(call'[c].yielded) = Len(call[c].yielded)
                THEN SubSeq(rules, 1, call[c].idx - 1) \o SubSeq(rules, call[c].idx + 1, Len(rules))
                ELSE rules
    /\ UNCHANGED <<parsing_module, settings_module, tagger, settings, language,
                   partial_rules, app_pc>>
    /\ UNCHANGED hvars

\* One turn of the loop of _iter_compiled_forms, and of the loop of
\* get_queries (and the return of get_query) when the rule gives an expression.
TryRule(c) ==
    /\ call[c].pc = "matching"
    /\ call[c].idx <= Len(rules_to_try)
    /\ call' = [call EXCEPT ![c] = after_rule(@, rules_to_try[call[c].idx])]
    /\ UNCHANGED <<parsing_module, settings_module, tagger, settings, language,
                   rules, partial_rules, app_pc>>
    /\ UNCHANGED hvars

\* The rules are exhausted: the generator ends, get_query returns None, None, None.
Exhausted(c) ==
    /\ call[c].pc = "matching"
    /\ call[c].idx > Len(rules_to_try)
    /\ call' = [call EXCEPT ![c].pc = "done"]
    /\ UNCHANGED <<parsing_module, settings_module, tagger, settings, language,
                   rules, partial_rules, app_pc>>
    /\ UNCHANGED hvars

\* The caller is done with the call: nothing of it is kept.
Return(c) ==
    /\ call[c].pc = "done"
    /\ call' = [call EXCEPT ![c] = BlankCall]
    /\ UNCHANGED <<parsing_module, settings_module, tagger, settings, language,
                   rules, partial_rules, app_pc>>
    /\ UNCHANGED hvars

\* Spec: one caller, calling again and again.
Next ==
    \/ QuepyApp_init
    \/ Call(1)
    \/ Tag(1)
    \/ TryRule(1)
    \/ Exhausted(1)
    \/ Return(1)

Spec == Init /\ [][Next]_vars

(***************************************************************************)
(* The claims about one call.                                              *)
(***************************************************************************)
TagsOf(text) == [i \in 1..Len(text.chars) |-> Word(text.chars[i])]

\* what a rule named name yields for the words
TripleOf(name, words) ==
    Triple(Value("target", name, <<>>, "sparql"),
           Value("query", name, words, "sparql"),
           Value("userdata", name, <<>>, ""))

\* the places of the rule source whose rule class matches the words
MatchingDeclarations(words) ==
    {i \in 1..Len(parsing_module) :
        /\ parsing_module[i].kind = "rule"
        /\ Matches(parsing_module[i].regex, words)}

Finished(c, entry) ==
    /\ app_pc = "ready"
    /\ tagger = "tags"
    /\ call[c].pc = "done"
    /\ call[c].entry = entry

\* C1 as stated: get_query returns what the highest-weight matching rule
\* produces, and among matching rules of equal weight the one declared first.
C1_HighestWeightDeclaredFirst ==
    \A c \in Callers :
        Finished(c, "get_query") =>
            LET words == TagsOf(sanitized(call[c].question))
                m == MatchingDeclarations(words)
            IN  \A i \in m :
                    (\A j \in m : \/ parsing_module[i].weight > parsing_module[j].weight
                                  \/ /\ parsing_module[i].weight = parsing_module[j].weight
                                     /\ i <= j)
                        => call[c].result = TripleOf(parsing_module[i].name, words)

\* C1 amended: get_query returns what the highest-weight matching rule
\* produces, and among matching rules of equal weight the one whose class name
\* comes first in dir() of the rule source, which lists names in sorted order.
C1_HighestWeightFirstName ==
    \A c \in Callers :
        Finished(c, "get_query") =>
            LET words == TagsOf(sanitized(call[c].question))
                m == MatchingDeclarations(words)
            IN  \A i \in m :
                    (\A j \in m : \/ parsing_module[i].weight > parsing_module[j].weight
                                  \/ /\ parsing_module[i].weight = parsing_module[j].weight
                                     /\ parsing_module[i].name <= parsing_module[j].name)
                        => call[c].result = TripleOf(parsing_module[i].name, words)

C1_Witness ==
    \E c \in Callers :
        /\ Finished(c, "get_query")
        /\ LET m == MatchingDeclarations(TagsOf(sanitized(call[c].question)))
           IN  \E i, j \in m :
                   /\ i < j
                   /\ parsing_module[i].weight = parsing_module[j].weight
                   /\ parsing_module[i].name > parsing_module[j].name
                   /\ call[c].result.target.rule = parsing_module[j].name

\* the rules of the registry that match the words, in registry order
RECURSIVE MatchingRules(_, _)
MatchingRules(rs, words) ==
    IF rs = <<>> THEN <<>>
    ELSE (IF Matches(Head(rs).regex, words) THEN <<Head(rs)>> ELSE <<>>)
         \o MatchingRules(Tail(rs), words)

\* C2: when tagging succeeds, a full iteration of get_queries yields one triple
\* per rule whose get_interpretation gives an expression, in registry order
\* (weight descending), and the code generator is invoked once for each such
\* rule and for no other.
C2_OneTriplePerMatchingRule ==
    \A c \in Callers :
        Finished(c, "get_queries") =>
            LET words == TagsOf(call[c].tagger_input)
                ms == MatchingRules(rules, words)
            IN  /\ call[c].yielded = [k \in 1..Len(ms) |-> TripleOf(ms[k].name, words)]
                /\ call[c].generated = [k \in 1..Len(ms) |-> ms[k].name]
                /\ \A i, j \in 1..Len(rules) : i < j => rules[i].weight >= rules[j].weight

C2_Witness ==
    \E c \in Callers :
        /\ Finished(c, "get_queries")
        /\ Len(call[c].yielded) = 1
        /\ Len(call[c].tried) = 2
        /\ rules[1].weight > rules[2].weight

\* C3: if the tagger raises the tagging error, get_queries yields nothing and
\* raises nothing, no rule is tried, the code generator is not invoked, and
\* get_query returns (None, None, None).
C3_TaggingErrorAbsorbed ==
    \A c \in Callers :
        tagger = "raises" =>
            /\ call[c].pc # "matching"
            /\ call[c].pc = "done" =>
                  /\ call[c].exc = None
                  /\ call[c].yielded = <<>>
                  /\ call[c].tried = <<>>
                  /\ call[c].generated = <<>>
                  /\ call[c].result = NoneTriple

C3_Witness ==
    \E c \in Callers :
        /\ tagger = "raises"
        /\ call[c].pc = "done"
        /\ call[c].entry = "get_query"
        /\ Len(rules) = 2

\* C4: a question whose tagged form matches no rule's full pattern gives
\* (None, None, None) from get_query and nothing from get_queries; the partial
\* patterns are not tried in the rules' stead.
C4_NoMatchNoFallback ==
    \A c \in Callers :
        (/\ app_pc = "ready" /\ tagger = "tags" /\ call[c].pc = "done"
         /\ MatchingDeclarations(TagsOf(call[c].tagger_input)) = {}) =>
            /\ call[c].yielded = <<>>
            /\ call[c].generated = <<>>
            /\ call[c].result = NoneTriple
            /\ Len(call[c].tried) = Len(rules)

C4_Witness ==
    \E c \in Callers :
        /\ app_pc = "ready" /\ tagger = "tags" /\ call[c].pc = "done"
        /\ MatchingDeclarations(TagsOf(call[c].tagger_input)) = {}
        /\ \E k \in 1..Len(partial_rules) : Matches(partial_rules[k], call[c].words)

\* C7: the text get_queries hands to the tagger is the sanitized question,
\* whether the caller entered through get_query or through get_queries.
C7_TaggerGetsSanitizedText ==
    \A c \in Callers :
        call[c].pc \in {"matching", "done"} =>
            call[c].tagger_input = encoding_flexible_conversion(sanitized(call[c].question))

(***************************************************************************)
(* The claim about the registry.                                           *)
(***************************************************************************)
\* where a pattern first occurs in a list, by compare_patterns
FirstOccurrence(p, list) ==
    CHOOSE k \in 1..Len(list) :
        /\ compare_patterns(p, list[k])
        /\ \A l \in 1..(k - 1) : ~compare_patterns(p, list[l])

\* C9: after construction the partial-pattern list holds no two entries of the
\* same type and rendering, holds an entry for every shape among the rules'
\* fragments, keeps them in the order of their first occurrence, and is left
\* as it is by remove_duplicates.
C9_PartialRulesDeduplicated ==
    app_pc = "ready" =>
        LET all == all_partial_rules(get_rules(parsing_module))
        IN  /\ \A i, j \in 1..Len(partial_rules) :
                   i # j => ~compare_patterns(partial_rules[i], partial_rules[j])
            /\ \A k \in 1..Len(all) :
                   \E i \in 1..Len(partial_rules) : compare_patterns(all[k], partial_rules[i])
            /\ \A i \in 1..Len(partial_rules) :
                   /\ \E k \in 1..Len(all) : compare_patterns(all[k], partial_rules[i])
                   /\ partial_rules[i] = all[FirstOccurrence(partial_rules[i], all)]
            /\ \A i, j \in 1..Len(partial_rules) :
                   i < j => FirstOccurrence(partial_rules[i], all) < FirstOccurrence(partial_rules[j], all)
            /\ remove_duplicates(partial_rules) = partial_rules

C9_Witness ==
    /\ app_pc = "ready"
    /\ LET all == all_partial_rules(get_rules(parsing_module))
       IN  /\ Len(partial_rules) >= 3
           /\ \E i, j \in 1..Len(all) : i + 1 < j /\ compare_patterns(all[i], all[j])
                                         /\ ~compare_patterns(all[i], all[i + 1])

(***************************************************************************)
(* SpecConcurrent: several callers at once on one application.             *)
(***************************************************************************)
RuleClass(name, weight, regex) ==
    [name |-> name, kind |-> "rule", weight |-> weight, regex |-> regex]

ConcurrentModules ==
    {Imports \o <<RuleClass(2, 1, WhoIs), RuleClass(1, 1, Broad)>>,
     Imports \o <<RuleClass(1, 1, Captured), RuleClass(2, 2, WhoIs)>>}

ConcurrentQuestions == {Str(<<"a">>), Unicode(<<"b">>), Str(<<DQ>>)}

InitConcurrent ==
    /\ HarnessOff
    /\ parsing_module \in ConcurrentModules
    /\ settings_module = {Setting("LANGUAGE", "str", "sparql"), Setting("helper", "str", "x")}
    /\ tagger \in {"tags", "raises"}
    /\ settings = DefaultSettings
    /\ language = NoValue
    /\ rules = <<>>
    /\ partial_rules = <<>>
    /\ app_pc = "new"
    /\ call = [c \in Callers |-> BlankCall]

CallConcurrent(c) == CallWith(c, ConcurrentQuestions)

NextConcurrent ==
    \/ QuepyApp_init
    \/ \E c \in Callers : CallConcurrent(c)
    \/ \E c \in Callers : Tag(c)
    \/ \E c \in Callers : TryRule(c)
    \/ \E c \in Callers : Exhausted(c)
    \/ \E c \in Callers : Return(c)

SpecConcurrent == InitConcurrent /\ [][NextConcurrent]_vars

\* what a call gives when it runs alone on the application as constructed
AloneWords(entry, question) ==
    TagsOf(encoding_flexible_conversion(
               IF entry = "get_query" THEN sanitized(question) ELSE question))
AloneMatches(entry, question) ==
    IF tagger = "raises" THEN <<>>
    ELSE MatchingRules(sort_by_weight_reverse(get_rules(parsing_module)),
                       AloneWords(entry, question))
AloneYielded(entry, question) ==
    LET ms == AloneMatches(entry, question)
        n == IF entry = "get_query" /\ Len(ms) > 1 THEN 1 ELSE Len(ms)
    IN  [k \in 1..n |-> TripleOf(ms[k].name, AloneWords(entry, question))]
AloneResult(entry, question) ==
    IF entry = "get_query" /\ AloneMatches(entry, question) # <<>>
    THEN AloneYielded(entry, question)[1]
    ELSE NoneTriple

\* C10: once the application is constructed no call writes the rule list, the
\* partial-pattern list, the language or the process-wide settings, nothing
\* of a call is kept once it is over, and however the calls interleave each
\* gives what it would give alone on its question.
C10_CallsIndependent ==
    app_pc = "ready" =>
        /\ rules = sort_by_weight_reverse(get_rules(parsing_module))
        /\ partial_rules = get_partial_rules(get_rules(parsing_module))
        /\ language = getattr(settings_module, "LANGUAGE")
        /\ settings = _save_settings_values(DefaultSettings, settings_module)
        /\ \A c \in Callers :
              /\ call[c].pc = "idle" => call[c] = BlankCall
              /\ call[c].pc = "done" =>
                    /\ call[c].yielded = AloneYielded(call[c].entry, call[c].question)
                    /\ call[c].result = AloneResult(call[c].entry, call[c].question)

C10_Witness ==
    /\ app_pc = "ready"
    /\ \E c, d \in Callers :
          /\ c # d
          /\ call[c].pc = "done" /\ call[c].entry = "get_queries" /\ Len(call[c].yielded) = 1
          /\ Len(call[c].tried) = 2
          /\ call[d].pc = "matching" /\ call[d].idx = 2
          /\ call[d].question # call[c].question
====
